---------------------------- MODULE Spec2Model ----------------------------
(***************************************************************************)
(* A model of the data pipeline of 09_sentiment_analysis/                   *)
(* sentiment_analysis.ipynb: preprocess (tokenize, clip, index, label),     *)
(* preprocess_dataset (multiprocessing pool), the FixedBucketSampler        *)
(* batch_sampler, the batchify_fn collator, the training and the test        *)
(* DataLoader, and the MeanPoolingLayer of the network.                     *)
(*                                                                         *)
(* The notebook composes library calls (multiprocessing.Pool.map,           *)
(* gluonnlp ClipSequence / Vocab / batchify.Pad / batchify.Stack /          *)
(* FixedBucketSampler, mxnet DataLoader); each is modelled here by the      *)
(* behaviour of the call the notebook makes, at the line that makes it.     *)
(***************************************************************************)
EXTENDS Integers, Sequences, FiniteSets, TLC

VARIABLES
    \* preprocess(x): one call of the pure function
    pre_x,          \* the argument (text, score)
    pre_pc,         \* "call" before the call, "returned" or "raised" after it
    pre_ret,        \* what the call returned
    \* preprocess_dataset(dataset): the pool of worker processes
    pd_raw,         \* the argument: the raw dataset
    pd_nproc,       \* processes of mp.Pool() (the machine's cpu count)
    pd_pc,          \* position of the caller in preprocess_dataset
    pd_dataset,     \* the local variable dataset
    pd_lengths,     \* the local variable lengths
    pd_taskq,       \* chunks of the running map not yet taken by a worker
    pd_busy,        \* the chunks the workers are computing
    pd_value,       \* MapResult._value
    pd_success,     \* MapResult._success
    pd_left,        \* MapResult._number_left
    pd_order,       \* (history) the chunks of the last map, as they completed
    pd_ret,         \* what the caller of preprocess_dataset holds
    \* batchify_fn(samples): one call of the collator
    col_in,         \* the argument: a list of (data, label) samples
    col_pc,         \* "call" before the call, "returned" after it
    col_out,        \* what the call returned
    \* batch_sampler (FixedBucketSampler) and train_dataloader (DataLoader)
    ld_dataset,     \* train_dataset: the (data, label) samples
    ld_lengths,     \* train_data_lengths
    ld_batch_size,  \* the sampler's batch_size argument
    ld_num_buckets, \* the sampler's num_buckets argument
    ld_shuffle,     \* the sampler's shuffle argument
    bucket_keys,    \* sampler._bucket_keys
    bucket_sample_ids,   \* sampler._bucket_sample_ids
    bucket_batch_sizes,  \* sampler._bucket_batch_sizes
    batch_infos,    \* sampler._batch_infos: (bucket_id, batch_begin) pairs
    it_pc,          \* the loader's iterator: "idle", "iterating", "stopped"
    it_pos,         \* index batches of batch_infos consumed in this pass
    it_again,       \* (history) this pass is not the first one
    it_yielded,     \* the index batches the sampler yielded in this pass
    it_batches,     \* the collated batches the loader yielded in this pass
    \* test_dataloader (DataLoader with batch_size, shuffle=False)
    ev_dataset,     \* test_dataset: the (data, label) samples
    ev_batch_size,  \* the loader's batch_size argument
    ev_pc,          \* the loader's iterator: "idle", "iterating", "stopped"
    ev_next,        \* the index the sequential sampler gives next
    ev_yielded,     \* the index batches the batch sampler yielded in this pass
    ev_batches,     \* the collated batches the loader yielded in this pass
    ev_first,       \* (history) what the first pass yielded, once it ended,
                    \* and whether a later pass was started
    \* MeanPoolingLayer.hybrid_forward(F, data, valid_length)
    mp_data,        \* the argument data, shape (T, N, C)
    mp_valid_length,\* the argument valid_length, shape (N,)
    mp_other,       \* the data of a second call with the same valid_length
    mp_pc,          \* "call", "returned" (first call), "compared" (second)
    mp_out,         \* agg_state of the first call, shape (N, C)
    mp_out_other    \* agg_state of the second call

prevars == <<pre_x, pre_pc, pre_ret>>

pdvars == <<pd_raw, pd_nproc, pd_pc, pd_dataset, pd_lengths, pd_taskq,
            pd_busy, pd_value, pd_success, pd_left, pd_order, pd_ret>>

colvars == <<col_in, col_pc, col_out>>

ldvars == <<ld_dataset, ld_lengths, ld_batch_size, ld_num_buckets, ld_shuffle,
            bucket_keys, bucket_sample_ids, bucket_batch_sizes, batch_infos, it_pc, it_pos, it_again,
            it_yielded, it_batches>>

evvars == <<ev_dataset, ev_batch_size, ev_pc, ev_next, ev_yielded, ev_batches,
            ev_first>>

mpvars == <<mp_data, mp_valid_length, mp_other, mp_pc, mp_out, mp_out_other>>

vars == <<prevars, pdvars, colvars, ldvars, evvars, mpvars>>

(***************************************************************************)
(* Bounds of the model                                                      *)
(***************************************************************************)
\* number of distinct token patterns a raw text is drawn from
MaxPattern == 2
\* samples of a raw dataset given to preprocess_dataset
MaxRaw == 5
\* worker processes of the pool
MaxProc == 2
\* samples of a batch given to the collator alone
MaxBatch == 3
\* samples of a dataset given to the sampler (besides the 25-sample scenario)
MaxSamples == 3
\* the sampler's num_buckets and batch_size arguments (besides the notebook's)
MaxBuckets == 2
MaxBatchSize == 2
\* lists up to this length are shuffled into every permutation by one call;
\* a longer one is left as it is, reversed or rotated by one call (and in
\* the orders these generate by the calls of later passes)
FullShuffleLen == 2
\* samples of the single-bucket scenario
ScenarioSamples == 25

(***************************************************************************)
(* Program constants                                                        *)
(***************************************************************************)
\* nlp.data.ClipSequence(500)
ClipLen == 500
\* int(label > 5)
LabelThreshold == 5
\* Pad(..., pad_val=0) default padding value
PadVal == 0
\* index of the unknown token in the vocabulary
UnkIdx == 0
\* batch_size = 16
batch_size == 16
\* bucket_num, bucket_ratio = 10, 0.2 (the ratio as RatioNum / RatioDen)
bucket_num == 10
RatioNum == 1
RatioDen == 5

\* a value a variable holds before anything is assigned to it
None == <<>>

Min(a, b) == IF a <= b THEN a ELSE b
Max(a, b) == IF a >= b THEN a ELSE b

Range(s) == {s[i] : i \in DOMAIN s}

(***************************************************************************)
(* Raw data.  A review text is described by the number of tokens it has and *)
(* the pattern of its words; str is FALSE for a malformed text (a value     *)
(* that is not a string).                                                  *)
(***************************************************************************)
Words == <<"good", "bad", "movie", "zzz">>

\* a text of n tokens, the i-th being word number (i + b) mod 4
Text(n, b, str) == [n |-> n, a |-> 1, b |-> b, str |-> str]

\* the raw inputs of a preprocess call: texts around the clip length, and
\* one malformed text; scores 0..10
TextLens == {0, 1, 2, ClipLen - 1, ClipLen, ClipLen + 1, ClipLen + 2}
Scores == 0..10
Texts == {Text(n, b, TRUE) : n \in TextLens, b \in 0..(MaxPattern - 1)}
             \cup {Text(0, 0, FALSE)}

(***************************************************************************)
(* Each specification below exercises one part of the pipeline and leaves   *)
(* the variables of the other parts in their idle state.                    *)
(***************************************************************************)
\* no preprocess call is modelled
PreIdle ==
    /\ pre_x = [text |-> Text(0, 0, TRUE), score |-> 0]
    /\ pre_pc = "idle"
    /\ pre_ret = None

\* no preprocess_dataset call is modelled
PdIdle ==
    /\ pd_raw = <<>>
    /\ pd_nproc = 1
    /\ pd_pc = "idle"
    /\ pd_dataset = <<>>
    /\ pd_lengths = <<>>
    /\ pd_taskq = <<>>
    /\ pd_busy = <<>>
    /\ pd_value = <<>>
    /\ pd_success = TRUE
    /\ pd_left = 0
    /\ pd_order = <<>>
    /\ pd_ret = None

\* no collator call is modelled
ColIdle ==
    /\ col_in = <<>>
    /\ col_pc = "idle"
    /\ col_out = None

\* no test loader is modelled
EvIdle ==
    /\ ev_dataset = <<>>
    /\ ev_batch_size = 1
    /\ ev_pc = "idle"
    /\ ev_next = 0
    /\ ev_yielded = <<>>
    /\ ev_batches = <<>>
    /\ ev_first = None

\* no MeanPoolingLayer call is modelled
MpIdle ==
    /\ mp_data = <<>>
    /\ mp_valid_length = <<>>
    /\ mp_other = <<>>
    /\ mp_pc = "idle"
    /\ mp_out = None
    /\ mp_out_other = None

\* no sampler and no loader is modelled
LdIdle ==
    /\ ld_dataset = <<>>
    /\ ld_lengths = <<>>
    /\ ld_batch_size = 1
    /\ ld_num_buckets = 1
    /\ ld_shuffle = FALSE
    /\ bucket_keys = <<>>
    /\ bucket_sample_ids = <<>>
    /\ bucket_batch_sizes = <<>>
    /\ batch_infos = <<>>
    /\ it_pc = "none"
    /\ it_pos = 0
    /\ it_again = FALSE
    /\ it_yielded = <<>>
    /\ it_batches = <<>>

(***************************************************************************)
(* preprocess: tokenize, clip, index, label                                 *)
(***************************************************************************)
\* tokenizer = nlp.data.SpacyTokenizer('en'): the text's tokens, in order.
\* A text that is not a string makes the tokenizer raise.
tokenizer(text) ==
    [i \in 1..text.n |-> Words[((i * text.a + text.b) % Len(Words)) + 1]]

\* (mutant) the clip keeps the last 500 tokens instead of the first
length_clip_tail(tokens) ==
    SubSeq(tokens, Max(1, Len(tokens) - ClipLen + 1), Len(tokens))

\* length_clip = nlp.data.ClipSequence(500): sample[:500]
length_clip(tokens) == SubSeq(tokens, 1, Min(Len(tokens), ClipLen))

\* vocab token -> index; a token that is not in the vocabulary maps to the
\* unknown index
token_to_idx(tok) ==
    CASE tok = "good" -> 1
      [] tok = "bad" -> 2
      [] tok = "movie" -> 3
      [] OTHER -> UnkIdx

\* vocab[tokens] for a list of tokens: the list of their indices
vocab(tokens) == [i \in 1..Len(tokens) |-> token_to_idx(tokens[i])]

\* int(label > 5)
label_of(score) == IF score > LabelThreshold THEN 1 ELSE 0

\* preprocess(x) raises (in tokenizer(data)) when the text is not a string
preprocess_raises(x) == ~x.text.str

\* def preprocess(x): returns (data, label)
preprocess(x) ==
    <<vocab(length_clip(tokenizer(x.text))), label_of(x.score)>>

\* def get_length(x): float(len(x[0])); the float of a length <= 500 is the
\* same number
get_length(x) == Len(x[1])

(***************************************************************************)
(* preprocess_dataset: two pool.map calls inside "with mp.Pool() as pool"   *)
(***************************************************************************)
\* Pool.map's chunk size: divmod(len(iterable), len(pool) * 4), one more
\* when there is a remainder
PoolChunkFactor == 4
chunksize(n, nproc) ==
    IF n = 0 THEN 0
    ELSE (n \div (nproc * PoolChunkFactor))
           + (IF n % (nproc * PoolChunkFactor) = 0 THEN 0 ELSE 1)

\* MapResult._number_left: length // chunksize + bool(length % chunksize)
number_left(n, cs) ==
    IF n = 0 THEN 0 ELSE (n \div cs) + (IF n % cs = 0 THEN 0 ELSE 1)

\* Pool._get_tasks: chunk i (from 0) holds the items i*cs .. (i+1)*cs - 1 of
\* the iterable (positions from 1 here)
chunk_items(i, n, cs) == (i * cs + 1)..Min((i + 1) * cs, n)

\* the function of the running map raises on this item
func_raises(pc, item) == pc = "wait480" /\ preprocess_raises(item)

\* the function of the running map applied to an item
func(pc, item) == IF pc = "wait480" THEN preprocess(item) ELSE get_length(item)

Unset == [set |-> FALSE]
Slot(v) == [set |-> TRUE, v |-> v]

\* (mutant) the chunk's results are stored at the first free positions, in
\* the order the chunks complete
set_value_arrival(value, i, cs, items, pc, iterable) ==
    LET free == {k \in DOMAIN value : ~value[k].set}
        first == CHOOSE k \in free : \A j \in free : k <= j
        lo == CHOOSE k \in items : \A j \in items : k <= j
    IN  [k \in DOMAIN value |->
            IF k >= first /\ k < first + Cardinality(items)
            THEN Slot(func(pc, iterable[lo + (k - first)]))
            ELSE value[k]]

\* MapResult._set on success: self._value[i*cs:(i+1)*cs] = result
set_value(value, i, cs, items, pc, iterable) ==
    [k \in DOMAIN value |->
        IF k \in items THEN Slot(func(pc, iterable[k])) ELSE value[k]]

\* the iterable of the running map
iterable_of(pc) == IF pc \in {"line480", "wait480"} THEN pd_raw ELSE pd_dataset

RawSamples ==
    { [text |-> Text(1, 0, TRUE), score |-> 8],
      [text |-> Text(2, 1, TRUE), score |-> 2],
      [text |-> Text(0, 0, FALSE), score |-> 8] }

RawDatasets == UNION {[1..n -> RawSamples] : n \in 0..MaxRaw}

PdInit ==
    /\ pd_raw \in RawDatasets
    /\ pd_nproc \in 1..MaxProc
    /\ pd_pc = "line480"
    /\ pd_dataset = <<>>
    /\ pd_lengths = <<>>
    /\ pd_taskq = <<>>
    /\ pd_busy = [w \in 1..pd_nproc |-> -1]
    /\ pd_value = <<>>
    /\ pd_success = TRUE
    /\ pd_left = 0
    /\ pd_order = <<>>
    /\ pd_ret = None
    /\ PreIdle
    /\ ColIdle
    /\ LdIdle
    /\ EvIdle
    /\ MpIdle

\* pool.map(...) up to its wait: map_async puts the chunks on the task queue
PoolMapSubmit ==
    /\ pd_pc \in {"line480", "line481"}
    /\ LET n == Len(iterable_of(pd_pc))
           cs == chunksize(n, pd_nproc)
           nl == number_left(n, cs)
       IN  /\ pd_taskq' = [i \in 1..nl |-> i - 1]
           /\ pd_value' = [k \in 1..n |-> Unset]
           /\ pd_left' = nl
    /\ pd_success' = TRUE
    /\ pd_order' = <<>>
    /\ pd_pc' = IF pd_pc = "line480" THEN "wait480" ELSE "wait481"
    /\ UNCHANGED <<pd_raw, pd_nproc, pd_dataset, pd_lengths, pd_busy, pd_ret,
                   prevars, colvars, ldvars, evvars, mpvars>>

\* a worker process takes the next chunk from the task queue
WorkerGet(w) ==
    /\ pd_pc \in {"wait480", "wait481"}
    /\ pd_busy[w] = -1
    /\ pd_taskq # <<>>
    /\ pd_busy' = [pd_busy EXCEPT ![w] = Head(pd_taskq)]
    /\ pd_taskq' = Tail(pd_taskq)
    /\ UNCHANGED <<pd_raw, pd_nproc, pd_pc, pd_dataset, pd_lengths, pd_value,
                   pd_success, pd_left, pd_order, pd_ret, prevars, colvars, ldvars, evvars, mpvars>>

\* (mutant) a failed chunk is isolated: its items become empty samples and
\* the map goes on
MapResultSetIsolate(i, success) ==
    LET it == iterable_of(pd_pc)
        cs == chunksize(Len(it), pd_nproc)
        items == chunk_items(i, Len(it), cs)
    IN  /\ pd_left' = pd_left - 1
        /\ pd_success' = pd_success
        /\ pd_value' = [k \in DOMAIN pd_value |->
               IF k \notin items THEN pd_value[k]
               ELSE IF func_raises(pd_pc, it[k]) THEN Slot(<<<<>>, 0>>)
               ELSE Slot(func(pd_pc, it[k]))]

\* MapResult._set(i, (success, result))
MapResultSet(i, success) ==
    LET it == iterable_of(pd_pc)
        cs == chunksize(Len(it), pd_nproc)
    IN  /\ pd_left' = pd_left - 1
        /\ IF success /\ pd_success
           THEN /\ pd_value' = set_value(pd_value, i, cs,
                                         chunk_items(i, Len(it), cs), pd_pc, it)
                /\ pd_success' = pd_success
           ELSE IF ~success /\ pd_success
           THEN /\ pd_success' = FALSE
                /\ pd_value' = <<>>
           ELSE UNCHANGED <<pd_value, pd_success>>

\* a worker finishes its chunk (mapstar over the chunk's items: one raising
\* item fails the chunk) and the result handler stores the outcome
WorkerDone(w) ==
    /\ pd_pc \in {"wait480", "wait481"}
    /\ pd_busy[w] # -1
    /\ LET i == pd_busy[w]
           it == iterable_of(pd_pc)
           items == chunk_items(i, Len(it), chunksize(Len(it), pd_nproc))
       IN  MapResultSet(i, \A k \in items : ~func_raises(pd_pc, it[k]))
    /\ pd_busy' = [pd_busy EXCEPT ![w] = -1]
    /\ pd_order' = Append(pd_order, pd_busy[w])
    /\ UNCHANGED <<pd_raw, pd_nproc, pd_pc, pd_dataset, pd_lengths, pd_taskq,
                   pd_ret, prevars, colvars, ldvars, evvars, mpvars>>

\* the result of a finished map, as a list
value_list == [k \in DOMAIN pd_value |-> pd_value[k].v]

\* pool.map(...) returns (MapResult.get() after the event is set) and the
\* line's assignment is made
PoolMapReturn ==
    /\ pd_pc \in {"wait480", "wait481"}
    /\ pd_left = 0
    /\ pd_success
    /\ IF pd_pc = "wait480"
       THEN /\ pd_dataset' = value_list
            /\ pd_pc' = "line481"
            /\ UNCHANGED pd_lengths
       ELSE /\ pd_lengths' = value_list
            /\ pd_pc' = "line484"
            /\ UNCHANGED pd_dataset
    /\ UNCHANGED <<pd_raw, pd_nproc, pd_taskq, pd_busy, pd_value, pd_success,
                   pd_left, pd_order, pd_ret, prevars, colvars, ldvars, evvars, mpvars>>

\* pool.map(...) raises the stored exception: the with block terminates the
\* pool and the exception leaves preprocess_dataset.  The event is set when
\* every chunk is done (from Python 3.5 on) or at the first failure (before).
PoolMapRaise ==
    /\ pd_pc \in {"wait480", "wait481"}
    /\ ~pd_success
    /\ pd_pc' = "raised"
    /\ pd_taskq' = <<>>
    /\ pd_busy' = [w \in 1..pd_nproc |-> -1]
    /\ UNCHANGED <<pd_raw, pd_nproc, pd_dataset, pd_lengths, pd_value,
                   pd_success, pd_left, pd_order, pd_ret, prevars, colvars, ldvars, evvars, mpvars>>

\* end of the with block and "return dataset, lengths"
PdReturn ==
    /\ pd_pc = "line484"
    /\ pd_pc' = "returned"
    /\ pd_ret' = <<pd_dataset, pd_lengths>>
    /\ UNCHANGED <<pd_raw, pd_nproc, pd_dataset, pd_lengths, pd_taskq, pd_busy,
                   pd_value, pd_success, pd_left, pd_order, prevars, colvars, ldvars, evvars, mpvars>>

PdNext ==
    \/ PoolMapSubmit
    \/ \E w \in 1..pd_nproc : WorkerGet(w)
    \/ \E w \in 1..pd_nproc : WorkerDone(w)
    \/ PoolMapReturn
    \/ PoolMapRaise
    \/ PdReturn

SpecPool == PdInit /\ [][PdNext]_vars

(***************************************************************************)
(* batchify_fn = Tuple(Pad(axis=0, ret_length=True), Stack(dtype='float32'))*)
(***************************************************************************)
\* max over a non-empty sequence of numbers
MaxOf(ns) == CHOOSE m \in Range(ns) : \A k \in Range(ns) : k <= m

\* (mutant) the sequence is copied to the last positions of its row
pad_row_right(arr, max_size) ==
    [j \in 1..max_size |->
        IF j > max_size - Len(arr) THEN arr[j - (max_size - Len(arr))]
        ELSE PadVal]

\* Pad: one row of the result, ret[i, :len(arr)] = arr over a buffer filled
\* with pad_val
pad_row(arr, max_size) ==
    [j \in 1..max_size |-> IF j <= Len(arr) THEN arr[j] ELSE PadVal]

\* (mutant) the padded arrays are stacked along the second axis: the buffer
\* has shape (max length, count)
Pad_length_first(arrs) ==
    LET original_length == [i \in 1..Len(arrs) |-> Len(arrs[i])]
        max_size == MaxOf(original_length)
    IN  <<[shape |-> <<max_size, Len(arrs)>>,
           data |-> [j \in 1..max_size |->
                       [i \in 1..Len(arrs) |-> pad_row(arrs[i], max_size)[j]]]],
          original_length>>

\* nlp.data.batchify.Pad(axis=0, ret_length=True): every array is padded
\* along its axis 0 to the longest one and the padded arrays are stacked
\* along a new first axis, shape (len(arrs), max_size); with ret_length the
\* original lengths are returned too
Pad(arrs) ==
    LET original_length == [i \in 1..Len(arrs) |-> Len(arrs[i])]
        max_size == MaxOf(original_length)
    IN  <<[shape |-> <<Len(arrs), max_size>>,
           data |-> [i \in 1..Len(arrs) |-> pad_row(arrs[i], max_size)]],
          original_length>>

\* nlp.data.batchify.Stack(dtype='float32'): the labels as one vector
Stack(labels) == [shape |-> <<Len(labels)>>, data |-> labels]

\* nlp.data.batchify.Tuple(Pad, Stack): Pad on the samples' first fields and
\* Stack on their second fields
batchify_fn(samples) ==
    <<Pad([i \in 1..Len(samples) |-> samples[i][1]]),
      Stack([i \in 1..Len(samples) |-> samples[i][2]])>>

ColSeqs == {<<>>, <<1>>, <<1, 3>>, <<2, 3>>, <<3, 0, 1>>}
ColSamples == {<<d, l>> : d \in ColSeqs, l \in {0, 1}}

ColInit ==
    /\ col_in \in UNION {[1..n -> ColSamples] : n \in 1..MaxBatch}
    /\ col_pc = "call"
    /\ col_out = None
    /\ PreIdle
    /\ PdIdle
    /\ LdIdle
    /\ EvIdle
    /\ MpIdle

BatchifyCall ==
    /\ col_pc = "call"
    /\ col_pc' = "returned"
    /\ col_out' = batchify_fn(col_in)
    /\ UNCHANGED <<col_in, prevars, pdvars, ldvars, evvars, mpvars>>

ColNext == BatchifyCall

SpecCollate == ColInit /\ [][ColNext]_vars

(***************************************************************************)
(* Specification of a single preprocess call                               *)
(***************************************************************************)
PreInit ==
    /\ pre_x \in [text : Texts, score : Scores]
    /\ pre_pc = "call"
    /\ pre_ret = None
    /\ PdIdle
    /\ ColIdle
    /\ LdIdle
    /\ EvIdle
    /\ MpIdle

PreprocessCall ==
    /\ pre_pc = "call"
    /\ IF preprocess_raises(pre_x)
       THEN pre_pc' = "raised" /\ pre_ret' = None
       ELSE pre_pc' = "returned" /\ pre_ret' = preprocess(pre_x)
    /\ UNCHANGED <<pre_x, pdvars, colvars, ldvars, evvars, mpvars>>

PreNext == PreprocessCall

SpecPreprocess == PreInit /\ [][PreNext]_vars

(***************************************************************************)
(* batch_sampler = FixedBucketSampler(train_data_lengths, batch_size=...,   *)
(* num_buckets=..., ratio=..., shuffle=...) and                             *)
(* train_dataloader = DataLoader(train_dataset, batch_sampler, batchify_fn) *)
(***************************************************************************)
MinOf(ns) == CHOOSE m \in Range(ns) : \A k \in Range(ns) : m <= k

\* the elements of a finite set of numbers, ascending
RECURSIVE SortedSeq(_)
SortedSeq(S) ==
    IF S = {} THEN <<>>
    ELSE LET m == CHOOSE x \in S : \A y \in S : x <= y
         IN  <<m>> \o SortedSeq(S \ {m})

\* the bucket keys generated from the lengths when bucket_keys is not given:
\* num_buckets keys of constant width down from the longest length, never
\* below the shortest; stats() prints them distinct and ascending
generated_bucket_keys(lengths, num_buckets) ==
    LET max_length == MaxOf(lengths)
        min_length == MinOf(lengths)
        bucket_width == Max((1 + max_length - min_length) \div num_buckets, 1)
    IN  SortedSeq({Max(max_length - i * bucket_width, min_length) :
                      i \in 0..(num_buckets - 1)})

\* (mutant) a sample goes to the bucket of the largest key
fits_largest(keys, b, len) ==
    /\ keys[b] >= len
    /\ \A c \in DOMAIN keys : keys[c] <= keys[b]

\* _match_bucket_keys: bucket b is the one of the smallest key >= the length
fits(keys, b, len) ==
    /\ keys[b] >= len
    /\ \A c \in DOMAIN keys : keys[c] >= len => keys[b] <= keys[c]

\* _match_bucket_keys: the sample ids (from 0) of every key's bucket, in
\* dataset order
match_bucket_keys(keys, lengths) ==
    [b \in DOMAIN keys |->
        SortedSeq({i \in 0..(Len(lengths) - 1) : fits(keys, b, lengths[i + 1])})]

\* the buckets that got no sample are removed, from the keys and from the ids
kept_buckets(keys, ids) ==
    SortedSeq({b \in DOMAIN keys : ids[b] # <<>>})

\* the batch size of a bucket: max(int(max_key / key * ratio * batch_size),
\* batch_size), in exact arithmetic
scaled_batch_size(key, max_key, bsz) ==
    Max((max_key * RatioNum * bsz) \div (key * RatioDen), bsz)

\* (mutant) a partial last batch of a bucket is dropped
batch_begins_drop_last(count, bsz) ==
    {i \in 0..(count - 1) : i % bsz = 0 /\ i + bsz <= count}

\* range(0, len(sample_ids), bucket_batch_size)
batch_begins(count, bsz) == {i \in 0..(count - 1) : i % bsz = 0}

\* self._batch_infos: for every bucket in turn, (bucket_id, batch_begin) for
\* every batch_begin of the bucket
RECURSIVE make_batch_infos(_, _, _)
make_batch_infos(ids, sizes, b) ==
    IF b > Len(ids) THEN <<>>
    ELSE LET begins == SortedSeq(batch_begins(Len(ids[b]), sizes[b]))
         IN  [k \in 1..Len(begins) |-> <<b, begins[k]>>]
               \o make_batch_infos(ids, sizes, b + 1)

\* FixedBucketSampler.__init__
FixedBucketSampler(lengths, bsz, num_buckets, shuffle) ==
    LET keys == generated_bucket_keys(lengths, num_buckets)
        ids == match_bucket_keys(keys, lengths)
        kept == kept_buckets(keys, ids)
        kkeys == [k \in 1..Len(kept) |-> keys[kept[k]]]
        kids == [k \in 1..Len(kept) |-> ids[kept[k]]]
        max_key == MaxOf(kkeys)
        sizes == [k \in 1..Len(kept) |-> scaled_batch_size(kkeys[k], max_key, bsz)]
    IN  [bucket_keys |-> kkeys,
         bucket_sample_ids |-> kids,
         bucket_batch_sizes |-> sizes,
         batch_infos |-> make_batch_infos(kids, sizes, 1),
         shuffle |-> shuffle]

Reverse(s) == [k \in 1..Len(s) |-> s[Len(s) + 1 - k]]
Rotate(s) == [k \in 1..Len(s) |-> s[(k % Len(s)) + 1]]

\* np.random.shuffle(list): the orders the list may be left in (every
\* permutation of a short list; the list, its reverse and a rotation of a
\* longer one)
Shuffles(s) ==
    IF Len(s) <= FullShuffleLen
    THEN {p \in [1..Len(s) -> Range(s)] : Range(p) = Range(s)}
    ELSE {s, Reverse(s), Rotate(s)}

\* concatenation of the lists of a list
RECURSIVE Flatten(_)
Flatten(ss) == IF ss = <<>> THEN <<>> ELSE Head(ss) \o Flatten(Tail(ss))

\* (mutant) the ids of all buckets are shuffled together and dealt back to
\* the buckets
ShuffleEachAcross(ids) ==
    LET all == Flatten(ids)
        start(b) == Len(Flatten(SubSeq(ids, 1, b - 1)))
    IN  {[b \in DOMAIN ids |-> SubSeq(p, start(b) + 1, start(b) + Len(ids[b]))] :
            p \in Shuffles(all)}

\* for bucket_id in range(len(self._bucket_keys)):
\*     np.random.shuffle(self._bucket_sample_ids[bucket_id])
ShuffleEach(ids) ==
    {f \in [DOMAIN ids -> UNION {Shuffles(ids[b]) : b \in DOMAIN ids}] :
        \A b \in DOMAIN ids : f[b] \in Shuffles(ids[b])}

\* (mutant) the slice starts one position early
batch_slice_overlap(ids, batch_begin, bsz) ==
    SubSeq(ids, Max(batch_begin, 1), Min(batch_begin + bsz, Len(ids)))

\* self._bucket_sample_ids[bucket_id][batch_begin:batch_end] with
\* batch_end = min(batch_begin + batch_size, len(...))
batch_slice(ids, batch_begin, bsz) ==
    SubSeq(ids, batch_begin + 1, Min(batch_begin + bsz, Len(ids)))

\* (mutant) the loader takes the samples at the batch's positions, not at
\* its indices
loader_batch_positions(dataset, batch) ==
    batchify_fn([k \in 1..Len(batch) |-> dataset[k]])

\* DataLoader: batchify_fn([dataset[idx] for idx in batch])
loader_batch(dataset, batch) ==
    batchify_fn([k \in 1..Len(batch) |-> dataset[batch[k] + 1]])

\* the sample of a dataset at position i (from 1), of the given length
sample_of(i, len) == <<[j \in 1..len |-> ((i + j) % 3) + 1], i % 2>>

\* sequence lengths of the datasets given to the sampler; the sampler
\* asserts that every length is larger than 0
SampleLens == {1, 2, 20}

\* the lengths of the 25-sample scenario
ScenarioLengths ==
    [i \in 1..ScenarioSamples |-> IF i % 3 = 0 THEN 20 ELSE (i % 3)]

LdInitWith(lengths, bsz, num_buckets, shuffle) ==
    LET sampler == FixedBucketSampler(lengths, bsz, num_buckets, shuffle)
    IN  /\ ld_lengths = lengths
        /\ ld_dataset = [i \in 1..Len(lengths) |-> sample_of(i, lengths[i])]
        /\ ld_batch_size = bsz
        /\ ld_num_buckets = num_buckets
        /\ ld_shuffle = sampler.shuffle
        /\ bucket_keys = sampler.bucket_keys
        /\ bucket_sample_ids = sampler.bucket_sample_ids
        /\ bucket_batch_sizes = sampler.bucket_batch_sizes
        /\ batch_infos = sampler.batch_infos
        /\ it_pc = "idle"
        /\ it_pos = 0
        /\ it_again = FALSE
        /\ it_yielded = <<>>
        /\ it_batches = <<>>

LdInit ==
    /\ \E shuffle \in BOOLEAN :
         \/ \E n \in 1..MaxSamples : \E lengths \in [1..n -> SampleLens] :
              \E bsz \in 1..MaxBatchSize,
                 num_buckets \in (1..MaxBuckets) \cup {bucket_num} :
                 LdInitWith(lengths, bsz, num_buckets, shuffle)
         \/ LdInitWith(ScenarioLengths, batch_size, 1, shuffle)
    /\ PreIdle
    /\ PdIdle
    /\ ColIdle
    /\ EvIdle
    /\ MpIdle

\* iter(train_dataloader): the sampler's __iter__ shuffles the batch infos
\* and every bucket's ids in place when shuffle is set
LoaderIter ==
    /\ it_pc \in {"idle", "stopped"}
    /\ IF ld_shuffle
       THEN /\ batch_infos' \in Shuffles(batch_infos)
            /\ bucket_sample_ids' \in ShuffleEach(bucket_sample_ids)
       ELSE UNCHANGED <<batch_infos, bucket_sample_ids>>
    /\ it_pc' = "iterating"
    /\ it_pos' = 0
    /\ it_again' = (it_pc = "stopped")
    /\ it_yielded' = <<>>
    /\ it_batches' = <<>>
    /\ UNCHANGED <<ld_dataset, ld_lengths, ld_batch_size, ld_num_buckets,
                   ld_shuffle, bucket_keys,
                   bucket_batch_sizes, prevars, pdvars, colvars,
                   evvars, mpvars>>

\* next(...): the sampler yields the next index batch and the loader
\* collates its samples
LoaderNext ==
    /\ it_pc = "iterating"
    /\ it_pos < Len(batch_infos)
    /\ LET bucket_id == batch_infos[it_pos + 1][1]
           batch_begin == batch_infos[it_pos + 1][2]
           batch == batch_slice(bucket_sample_ids[bucket_id], batch_begin,
                                bucket_batch_sizes[bucket_id])
       IN  /\ it_yielded' = Append(it_yielded, batch)
           /\ it_batches' = Append(it_batches, loader_batch(ld_dataset, batch))
    /\ it_pos' = it_pos + 1
    /\ UNCHANGED <<ld_dataset, ld_lengths, ld_batch_size, ld_num_buckets,
                   ld_shuffle, bucket_keys,
                   bucket_sample_ids, bucket_batch_sizes, batch_infos, it_pc,
                   it_again, prevars, pdvars, colvars,
                   evvars, mpvars>>

\* next(...) after the last batch: StopIteration ends the for loop
LoaderStop ==
    /\ it_pc = "iterating"
    /\ it_pos = Len(batch_infos)
    /\ it_pc' = "stopped"
    /\ UNCHANGED <<ld_dataset, ld_lengths, ld_batch_size, ld_num_buckets,
                   ld_shuffle, bucket_keys,
                   bucket_sample_ids, bucket_batch_sizes, batch_infos, it_pos,
                   it_again, it_yielded, it_batches, prevars, pdvars, colvars,
                   evvars, mpvars>>

LdNext ==
    \/ LoaderIter
    \/ LoaderNext
    \/ LoaderStop

SpecLoader == LdInit /\ [][LdNext]_vars

\* the notebook's training loader: num_buckets=bucket_num, shuffle=True
LdTrainInit ==
    /\ \E n \in 1..MaxSamples : \E lengths \in [1..n -> SampleLens] :
         \E bsz \in (1..MaxBatchSize) \cup {batch_size} :
            LdInitWith(lengths, bsz, bucket_num, TRUE)
    /\ PreIdle
    /\ PdIdle
    /\ ColIdle
    /\ EvIdle
    /\ MpIdle

\* the for loop over the training loader keeps calling next (which yields a
\* batch or ends the pass) until the iterator is exhausted
SpecTrainLoader ==
    LdTrainInit /\ [][LdNext]_vars /\ WF_vars(LoaderNext \/ LoaderStop)

\* the dataset indices
Indices == 0..(Len(ld_lengths) - 1)

\* the indices of the batches yielded so far, in the order yielded
YieldedIndices == Flatten(it_yielded)

\* C1: one full pass over the bucketing sampler, with or without shuffling,
\* yields index batches that hold every dataset index 0..N-1 exactly once:
\* no index is yielded twice at any point of the pass, and at its end none
\* is missing.
C1_EveryIndexExactlyOnce ==
    /\ \A a, b \in 1..Len(YieldedIndices) :
          a # b => YieldedIndices[a] # YieldedIndices[b]
    /\ Range(YieldedIndices) \subseteq Indices
    /\ it_pc = "stopped" =>
          /\ Len(YieldedIndices) = Len(ld_lengths)
          /\ Range(YieldedIndices) = Indices

\* a shuffled pass over three or more samples in two or more batches ended,
\* the indices not in dataset order
C1_Witness ==
    /\ it_pc = "stopped"
    /\ ld_shuffle
    /\ Len(ld_lengths) >= 3
    /\ Len(it_yielded) >= 2
    /\ \E a, b \in 1..Len(YieldedIndices) :
          a < b /\ YieldedIndices[a] > YieldedIndices[b]

\* the keys generated at construction, before empty buckets are removed
GeneratedKeys == Range(generated_bucket_keys(ld_lengths, ld_num_buckets))

\* the bucket (position in bucket_keys) holding index i
BucketOf(i) ==
    CHOOSE b \in DOMAIN bucket_sample_ids : i \in Range(bucket_sample_ids[b])

\* C3: every sample index is in the bucket of the smallest key >= the
\* sample's length, and every yielded batch draws all its indices from a
\* single bucket, so that all member lengths are <= that batch's bucket key.
C3_SmallestFittingBucket ==
    /\ LET generated == GeneratedKeys
       IN  \A i \in Indices :
              /\ \E b \in DOMAIN bucket_sample_ids :
                    i \in Range(bucket_sample_ids[b])
              /\ LET key == bucket_keys[BucketOf(i)]
                 IN  /\ key >= ld_lengths[i + 1]
                     /\ \A k \in generated :
                           k >= ld_lengths[i + 1] => key <= k
    /\ \A y \in 1..Len(it_yielded) :
          \E b \in DOMAIN bucket_keys :
             /\ Range(it_yielded[y]) \subseteq Range(bucket_sample_ids[b])
             /\ \A i \in Range(it_yielded[y]) : ld_lengths[i + 1] <= bucket_keys[b]

\* batches of two different buckets were yielded, one of them holding a
\* sample shorter than its bucket's key
C3_Witness ==
    /\ Len(bucket_keys) >= 2
    /\ \E y, z \in 1..Len(it_yielded) :
          /\ BucketOf(it_yielded[y][1]) # BucketOf(it_yielded[z][1])
          /\ ld_lengths[it_yielded[y][1] + 1]
                < bucket_keys[BucketOf(it_yielded[y][1])]

\* the sampler as it was constructed
Constructed ==
    FixedBucketSampler(ld_lengths, ld_batch_size, ld_num_buckets, ld_shuffle)

\* C8: iterating the training loader yields exactly one collated batch per
\* index batch of the sampler and then ends normally; the loader can be
\* iterated again, and every pass, the first and any later one, ends after a
\* full epoch.
C8_OneBatchPerIndexBatch ==
    /\ Len(it_batches) = Len(it_yielded)
    /\ Len(it_batches) = it_pos
    /\ it_pos <= Len(batch_infos)
    /\ \A k \in 1..Len(it_batches) :
          /\ it_yielded[k] # <<>>
          /\ it_batches[k] =
               batchify_fn([j \in 1..Len(it_yielded[k]) |->
                               ld_dataset[it_yielded[k][j] + 1]])
    /\ it_pc = "stopped" =>
          /\ Len(it_batches) = Len(Constructed.batch_infos)
          /\ ENABLED LoaderIter

C8_LoaderPassesEnd ==
    /\ []C8_OneBatchPerIndexBatch
    /\ (it_pc = "iterating") ~> (it_pc = "stopped")

\* a second pass over the loader ended after two or more collated batches
C8_Witness ==
    /\ it_pc = "stopped"
    /\ it_again
    /\ Len(it_batches) >= 2
    /\ \E k \in 1..Len(it_batches) : Len(it_yielded[k]) >= 2

\* C9: across the passes over a sampler, shuffling or not, the bucket
\* keys, the per-bucket batch sizes and the bucket of every dataset index
\* stay as constructed; only the order of the indices inside a bucket and the
\* order of the batches change.
C9_BucketsFixedAcrossEpochs ==
    LET c == Constructed
    IN  /\ bucket_keys = c.bucket_keys
        /\ bucket_batch_sizes = c.bucket_batch_sizes
        /\ DOMAIN bucket_sample_ids = DOMAIN c.bucket_sample_ids
        /\ \A b \in DOMAIN bucket_sample_ids :
              /\ Range(bucket_sample_ids[b]) = Range(c.bucket_sample_ids[b])
              /\ Len(bucket_sample_ids[b]) = Len(c.bucket_sample_ids[b])
        /\ Range(batch_infos) = Range(c.batch_infos)
        /\ Len(batch_infos) = Len(c.batch_infos)

\* a later pass of a shuffling sampler with two or more buckets ended, the
\* ids of a bucket and the batches in another order than constructed
C9_Witness ==
    /\ it_pc = "stopped"
    /\ it_again
    /\ ld_shuffle
    /\ Len(bucket_keys) >= 2
    /\ bucket_sample_ids # Constructed.bucket_sample_ids
    /\ batch_infos # Constructed.batch_infos

CeilDiv(c, b) == (c + b - 1) \div b

RECURSIVE SumCeil(_, _, _)
SumCeil(ids, sizes, b) ==
    IF b > Len(ids) THEN 0
    ELSE CeilDiv(Len(ids[b]), sizes[b]) + SumCeil(ids, sizes, b + 1)

\* the yielded batches that came from bucket b
YieldedFrom(b) ==
    {y \in 1..Len(it_yielded) : batch_infos[y][1] = b}

\* C10: a bucket holding c > 0 samples with batch size b >= 1 contributes
\* exactly ceil(c/b) batches, each of exactly b indices except possibly one,
\* the bucket's last, kept with its c mod b indices; a key that got no sample
\* has no bucket and contributes no batch; no yielded batch is empty and the
\* number of batches of a pass is the sum over the buckets of ceil(c/b).
C10_BatchesPerBucket ==
    /\ \A y \in 1..Len(it_yielded) : it_yielded[y] # <<>>
    /\ \A b \in DOMAIN bucket_keys :
          /\ Len(bucket_sample_ids[b]) > 0
          /\ bucket_batch_sizes[b] >= 1
    /\ LET generated == GeneratedKeys
       IN  Range(bucket_keys) =
              {k \in generated :
                  \E i \in Indices :
                     /\ k >= ld_lengths[i + 1]
                     /\ \A k2 \in generated : k2 >= ld_lengths[i + 1] => k <= k2}
    /\ it_pc = "stopped" =>
          /\ Len(it_yielded) =
                SumCeil(bucket_sample_ids, bucket_batch_sizes, 1)
          /\ \A b \in DOMAIN bucket_keys :
                LET c == Len(bucket_sample_ids[b])
                    bs == bucket_batch_sizes[b]
                    full == {y \in YieldedFrom(b) : Len(it_yielded[y]) = bs}
                    part == YieldedFrom(b) \ full
                IN  /\ Cardinality(YieldedFrom(b)) = CeilDiv(c, bs)
                    /\ Cardinality(part) <= 1
                    /\ \A y \in part :
                          /\ Len(it_yielded[y]) = c % bs
                          /\ batch_infos[y][2] = (c \div bs) * bs

\* the 25 samples of a single bucket with batch size 16 were yielded as two
\* batches of 16 and 9 indices
C10_Witness ==
    /\ it_pc = "stopped"
    /\ Len(ld_lengths) = 25
    /\ Len(bucket_keys) = 1
    /\ bucket_batch_sizes = <<16>>
    /\ Len(it_yielded) = 2
    /\ {Len(it_yielded[y]) : y \in 1..2} = {16, 9}

\* C4: for every input pair (text, score) preprocess returns a token-id
\* sequence of length <= 500 that is the vocabulary mapping of the first
\* min(n, 500) tokens of the text in their original order, and a label in
\* {0, 1} that is 1 if and only if score > 5.
C4_PreprocessClipsAndLabels ==
    /\ (pre_pc # "call" /\ pre_x.text.str) => pre_pc = "returned"
    /\ pre_pc = "returned" =>
          LET data == pre_ret[1]
              label == pre_ret[2]
              toks == tokenizer(pre_x.text)
              m == IF Len(toks) <= 500 THEN Len(toks) ELSE 500
          IN  /\ Len(data) <= 500
              /\ Len(data) = m
              /\ \A i \in 1..m : data[i] = token_to_idx(toks[i])
              /\ label \in {0, 1}
              /\ (label = 1) <=> (pre_x.score > 5)

\* a text of more than 500 tokens was preprocessed and clipped to 500
C4_Witness ==
    /\ pre_pc = "returned"
    /\ pre_x.text.n > 500
    /\ Len(pre_ret[1]) = 500
    /\ pre_x.score > 5
    /\ pre_ret[2] = 1

\* C2: preprocess_dataset returns a Samples sequence and a lengths sequence
\* of the input's length, Samples[i] being the preprocess result of input[i]
\* and lengths[i] the length of Samples[i], whatever the order in which the
\* workers of the pool complete.
C2_OutputAlignedWithInput ==
    pd_pc = "returned" =>
        LET Samples == pd_ret[1]
            lengths == pd_ret[2]
        IN  /\ Len(Samples) = Len(pd_raw)
            /\ Len(lengths) = Len(pd_raw)
            /\ \A i \in 1..Len(pd_raw) :
                  /\ Samples[i] = preprocess(pd_raw[i])
                  /\ lengths[i] = Len(Samples[i][1])

\* a dataset of different samples was returned after two workers completed
\* the chunks of the last map out of order
C2_Witness ==
    /\ pd_pc = "returned"
    /\ pd_nproc >= 2
    /\ Len(pd_raw) >= 3
    /\ pd_raw[1] # pd_raw[2]
    /\ \E a, b \in 1..Len(pd_order) : a < b /\ pd_order[a] > pd_order[b]

AnySampleFails == \E i \in 1..Len(pd_raw) : pd_raw[i].text.str = FALSE

\* C7: if preprocessing of any single sample fails in a worker, the whole
\* preprocess_dataset call ends in an error raised to its caller: the caller
\* never holds a dataset or a lengths sequence, the call never goes past the
\* first map, and it can only stop in the raised state.
C7_FailureAbortsWholeCall ==
    AnySampleFails =>
        /\ pd_ret = None
        /\ pd_pc \in {"line480", "wait480", "raised"}
        /\ (~ENABLED PdNext) => pd_pc = "raised"

\* the call raised although other chunks had completed with a result
C7_Witness ==
    /\ pd_pc = "raised"
    /\ pd_ret = None
    /\ Len(pd_raw) >= 3
    /\ \E k \in 1..Len(pd_order) :
          \A j \in chunk_items(pd_order[k], Len(pd_raw),
                                chunksize(Len(pd_raw), pd_nproc)) :
              pd_raw[j].text.str

\* C5: for every non-empty batch the collator produces a buffer whose padded
\* width is the maximum sequence length of the batch, a valid-length vector in
\* batch order with valid_length[i] the original length of sequence i (hence
\* <= the width), row i holding sequence i in its first valid_length[i]
\* positions and the padding value 0 from there to the end of the row.
C5_PaddedRowsKeepSequences ==
    col_pc = "returned" =>
        LET buf == col_out[1][1].data
            valid_length == col_out[1][2]
            n == Len(col_in)
            width == CHOOSE m \in {Len(col_in[i][1]) : i \in 1..n} :
                        \A i \in 1..n : Len(col_in[i][1]) <= m
        IN  /\ Len(buf) = n
            /\ Len(valid_length) = n
            /\ \A i \in 1..n :
                  /\ Len(buf[i]) = width
                  /\ valid_length[i] = Len(col_in[i][1])
                  /\ valid_length[i] <= width
                  /\ \A j \in 1..valid_length[i] : buf[i][j] = col_in[i][1][j]
                  /\ \A j \in (valid_length[i] + 1)..width : buf[i][j] = 0

\* a batch of sequences of different lengths was collated: a row is padded
C5_Witness ==
    /\ col_pc = "returned"
    /\ Len(col_in) >= 2
    /\ \E i, k \in 1..Len(col_in) :
          /\ Len(col_in[i][1]) > 0
          /\ Len(col_in[i][1]) < Len(col_in[k][1])
          /\ col_out[1][1].data[i][Len(col_in[k][1])] = 0

\* C6 as stated: the collator's buffer has shape (max length, count), length
\* axis first: (L, 1) for a batch of one sequence of length L, with
\* valid_length = [L].
C6_ShapeLengthFirst ==
    col_pc = "returned" =>
        LET n == Len(col_in)
            L == MaxOf([i \in 1..n |-> Len(col_in[i][1])])
        IN  /\ col_out[1][1].shape = <<L, n>>
            /\ (n = 1 => col_out[1][2] = <<L>>)

\* C6 (amended): the collator's buffer has shape (count, max length), batch
\* axis first and length axis second: (1, L) for a batch of one sequence of
\* length L, with valid_length = [L].
C6_ShapeBatchFirst ==
    col_pc = "returned" =>
        LET n == Len(col_in)
            L == MaxOf([i \in 1..n |-> Len(col_in[i][1])])
            buf == col_out[1][1]
        IN  /\ buf.shape = <<n, L>>
            /\ Len(buf.data) = n
            /\ \A i \in 1..n : Len(buf.data[i]) = L
            /\ (n = 1 => col_out[1][2] = <<L>>)

\* a batch of one sequence of length 3 was collated
C6_Witness ==
    /\ col_pc = "returned"
    /\ Len(col_in) = 1
    /\ Len(col_in[1][1]) = 3
    /\ col_out[1][1].shape = <<1, 3>>
    /\ col_out[1][2] = <<3>>

(***************************************************************************)
(* test_dataloader = gluon.data.DataLoader(dataset=test_dataset,            *)
(*     batch_size=batch_size, shuffle=False, batchify_fn=batchify_fn)       *)
(* With no batch_sampler the loader builds a sequential sampler over        *)
(* range(len(dataset)) and a batch sampler of batch_size that keeps the     *)
(* last batch.                                                             *)
(***************************************************************************)
\* (mutant) a batch is only yielded when batch_size indices are left
batch_left_discard(next, length, bsz) == next + bsz <= length

\* the batch sampler has a batch to yield: the sequential sampler is not
\* exhausted, and what it still gives is yielded even when it is fewer than
\* batch_size indices (last_batch 'keep')
batch_left(next, length, bsz) == next < length

\* for i in self._sampler: batch.append(i);
\*     if len(batch) == self._batch_size: yield batch
\* and after the loop: if batch: yield batch
RECURSIVE batch_fill(_, _, _, _)
batch_fill(batch, next, length, bsz) ==
    IF next = length \/ Len(batch) = bsz
    THEN batch
    ELSE batch_fill(Append(batch, next), next + 1, length, bsz)

\* the datasets and batch sizes given to the test loader
EvInitWith(lengths, bsz) ==
    /\ ev_dataset = [i \in 1..Len(lengths) |-> sample_of(i, lengths[i])]
    /\ ev_batch_size = bsz
    /\ ev_pc = "idle"
    /\ ev_next = 0
    /\ ev_yielded = <<>>
    /\ ev_batches = <<>>
    /\ ev_first = None

EvInit ==
    /\ \/ \E n \in 0..MaxSamples : \E lengths \in [1..n -> SampleLens] :
            \E bsz \in (1..MaxBatchSize) \cup {batch_size} :
               EvInitWith(lengths, bsz)
       \/ EvInitWith(ScenarioLengths, batch_size)
    /\ PreIdle
    /\ PdIdle
    /\ ColIdle
    /\ LdIdle
    /\ MpIdle

\* iter(test_dataloader): a new pass of the sequential sampler
EvalIter ==
    /\ ev_pc \in {"idle", "stopped"}
    /\ ev_pc' = "iterating"
    /\ ev_next' = 0
    /\ ev_yielded' = <<>>
    /\ ev_batches' = <<>>
    /\ ev_first' = IF ev_first = None
                   THEN None
                   ELSE <<[ev_first[1] EXCEPT !.again = TRUE]>>
    /\ UNCHANGED <<ev_dataset, ev_batch_size, prevars, pdvars,
                   colvars, ldvars, mpvars>>

\* next(...): the batch sampler yields the next index batch and the loader
\* collates its samples
EvalNext ==
    /\ ev_pc = "iterating"
    /\ batch_left(ev_next, Len(ev_dataset), ev_batch_size)
    /\ LET batch == batch_fill(<<>>, ev_next, Len(ev_dataset), ev_batch_size)
       IN  /\ ev_yielded' = Append(ev_yielded, batch)
           /\ ev_batches' = Append(ev_batches, loader_batch(ev_dataset, batch))
           /\ ev_next' = ev_next + Len(batch)
    /\ UNCHANGED <<ev_dataset, ev_batch_size, ev_pc, ev_first, prevars, pdvars,
                   colvars, ldvars, mpvars>>

\* next(...) after the last batch: StopIteration ends the for loop
EvalStop ==
    /\ ev_pc = "iterating"
    /\ ~batch_left(ev_next, Len(ev_dataset), ev_batch_size)
    /\ ev_pc' = "stopped"
    /\ ev_first' = IF ev_first = None
                   THEN <<[yielded |-> ev_yielded, batches |-> ev_batches,
                           again |-> FALSE]>>
                   ELSE ev_first
    /\ UNCHANGED <<ev_dataset, ev_batch_size, ev_next, ev_yielded, ev_batches,
                   prevars, pdvars, colvars, ldvars, mpvars>>

EvNext ==
    \/ EvalIter
    \/ EvalNext
    \/ EvalStop

SpecEvalLoader == EvInit /\ [][EvNext]_vars

\* the consecutive run of indices that batch k (from 1) of a dataset of n
\* samples holds under batch size bsz
ConsecutiveRun(k, n, bsz) ==
    [j \in 1..(Min(k * bsz, n) - (k - 1) * bsz) |-> (k - 1) * bsz + j - 1]

\* C11: the test loader (fixed batch size B, no shuffling, no bucketing
\* sampler) partitions the indices 0..N-1 into consecutive runs in ascending
\* order: batch k (from 0) holds the indices k*B .. min((k+1)*B, N)-1, a pass
\* yields exactly ceil(N/B) batches with a smaller last batch kept, and a
\* later pass yields the same batches in the same order as the first.
C11_EvalConsecutiveRuns ==
    LET n == Len(ev_dataset)
    IN  /\ Len(ev_batches) = Len(ev_yielded)
        /\ \A k \in 1..Len(ev_yielded) :
              /\ ev_yielded[k] = ConsecutiveRun(k, n, ev_batch_size)
              /\ ev_yielded[k] # <<>>
              /\ ev_batches[k] =
                    batchify_fn([j \in 1..Len(ev_yielded[k]) |->
                                    ev_dataset[ev_yielded[k][j] + 1]])
        /\ ev_pc = "stopped" =>
              /\ Len(ev_yielded) = CeilDiv(n, ev_batch_size)
              /\ Flatten(ev_yielded) = [i \in 1..n |-> i - 1]
        /\ ev_first # None =>
              /\ Len(ev_yielded) <= Len(ev_first[1].yielded)
              /\ \A k \in 1..Len(ev_yielded) :
                    /\ ev_yielded[k] = ev_first[1].yielded[k]
                    /\ ev_batches[k] = ev_first[1].batches[k]
              /\ ev_pc = "stopped" =>
                    /\ ev_yielded = ev_first[1].yielded
                    /\ ev_batches = ev_first[1].batches

\* a second pass over 25 samples with batch size 16 ended: two batches, the
\* last one holding the 9 indices 16..24
C11_Witness ==
    /\ ev_pc = "stopped"
    /\ ev_first # None
    /\ ev_first[1].again
    /\ ev_first[1].yielded = ev_yielded
    /\ Len(ev_dataset) = 25
    /\ ev_batch_size = 16
    /\ Len(ev_yielded) = 2
    /\ Len(ev_yielded[2]) = 9
    /\ ev_yielded[2][1] = 16
    /\ ev_yielded[2][9] = 24

(***************************************************************************)
(* MeanPoolingLayer.hybrid_forward(F, data, valid_length)                   *)
(* data has shape (T, N, C): data[t][n] is the feature vector (the C        *)
(* channels) of batch column n at time step t; steps and columns are        *)
(* numbered from 1 here, so step t of the model is time step t - 1.         *)
(* The float division is modelled by the exact quotient.                    *)
(***************************************************************************)
\* time steps T of the encoder features
MaxSteps == 2
\* batch columns N of the encoder features
MaxColumns == 2

\* F.SequenceMask(...): the value written over the masked positions
\* (the operator's default, value=0)
MaskVal == 0

\* the feature vectors the encoder features are drawn from
Features == {<<-1, 2>>, <<2, 0>>}

RECURSIVE GCD(_, _)
GCD(a, b) == IF b = 0 THEN a ELSE GCD(b, a % b)

Abs(a) == IF a < 0 THEN -a ELSE a

\* the quotient a / b of two numbers, b > 0, as a fraction in lowest terms
Quot(a, b) ==
    LET g == GCD(Abs(a), b)
    IN  [num |-> a \div g, den |-> b \div g]

\* (mutant) the mask is not applied (use_sequence_length=False)
SequenceMask_unused(data, sequence_length) == data

\* F.SequenceMask(data, sequence_length=valid_length,
\*                use_sequence_length=True)
\* every element of column n at a time step >= sequence_length[n] is
\* overwritten with the mask value
SequenceMask(data, sequence_length) ==
    [t \in DOMAIN data |->
        [n \in DOMAIN data[t] |->
            IF t - 1 < sequence_length[n]
            THEN data[t][n]
            ELSE [c \in DOMAIN data[t][n] |-> MaskVal]]]

\* F.sum(x, axis=0): shape (T, N, C) -> (N, C)
RECURSIVE sum_steps(_, _)
sum_steps(x, t) ==
    IF t = 1 THEN x[1]
    ELSE LET rest == sum_steps(x, t - 1)
         IN  [n \in DOMAIN x[t] |->
                [c \in DOMAIN x[t][n] |-> rest[n][c] + x[t][n][c]]]

sum_axis0(x) == sum_steps(x, Len(x))

\* F.expand_dims(valid_length, axis=1): shape (N,) -> (N, 1)
expand_dims(valid_length) == [n \in DOMAIN valid_length |-> <<valid_length[n]>>]

\* F.broadcast_div(a, b): a of shape (N, C), b of shape (N, 1)
broadcast_div(a, b) ==
    [n \in DOMAIN a |-> [c \in DOMAIN a[n] |-> Quot(a[n][c], b[n][1])]]

\* masked_encoded = F.SequenceMask(...)
\* agg_state = F.broadcast_div(F.sum(masked_encoded, axis=0),
\*                             F.expand_dims(valid_length, axis=1))
hybrid_forward(data, valid_length) ==
    LET masked_encoded == SequenceMask(data, valid_length)
    IN  broadcast_div(sum_axis0(masked_encoded), expand_dims(valid_length))

\* the encoder features of shape (T, N, C)
Encoded(T, N) == [1..T -> [1..N -> Features]]

\* two inputs agree at the valid positions of every column
AgreeOnValid(data, other, valid_length) ==
    \A t \in DOMAIN data : \A n \in DOMAIN data[t] :
        t - 1 < valid_length[n] => other[t][n] = data[t][n]

\* the layer is given the encoder features of a padded batch and the
\* lengths of its sequences, each at least 1 and at most T
MpInit ==
    /\ \E T \in 1..MaxSteps, N \in 1..MaxColumns :
          /\ mp_data \in Encoded(T, N)
          /\ mp_valid_length \in [1..N -> 1..T]
    /\ mp_other = <<>>
    /\ mp_pc = "call"
    /\ mp_out = None
    /\ mp_out_other = None
    /\ PreIdle
    /\ PdIdle
    /\ ColIdle
    /\ LdIdle
    /\ EvIdle

\* the layer is called on data
MeanPoolingForward ==
    /\ mp_pc = "call"
    /\ mp_out' = hybrid_forward(mp_data, mp_valid_length)
    /\ mp_pc' = "returned"
    /\ UNCHANGED <<mp_data, mp_valid_length, mp_other, mp_out_other, prevars,
                   pdvars, colvars, ldvars, evvars>>

\* the layer is called again, on features that hold anything at the padded
\* positions and the same as data elsewhere
MeanPoolingForwardOther ==
    /\ mp_pc = "returned"
    /\ \E other \in Encoded(Len(mp_data), Len(mp_valid_length)) :
          /\ AgreeOnValid(mp_data, other, mp_valid_length)
          /\ mp_other' = other
          /\ mp_out_other' = hybrid_forward(other, mp_valid_length)
    /\ mp_pc' = "compared"
    /\ UNCHANGED <<mp_data, mp_valid_length, mp_out, prevars, pdvars, colvars,
                   ldvars, evvars>>

MpNext ==
    \/ MeanPoolingForward
    \/ MeanPoolingForwardOther

SpecMeanPooling == MpInit /\ [][MpNext]_vars

\* the sum of channel c of column n over the time steps 0 .. len - 1
RECURSIVE ValidSum(_, _, _, _)
ValidSum(data, n, c, len) ==
    IF len = 0 THEN 0 ELSE ValidSum(data, n, c, len - 1) + data[len][n][c]

\* C12: the pooled output of batch column n is the sum of the encoder
\* features at the time steps 0 .. valid_length[n]-1 divided by
\* valid_length[n], and two inputs that agree at those positions and differ
\* only at the padded positions valid_length[n] .. T-1 give the same pooled
\* output.
C12_PooledOverValidOnly ==
    /\ mp_pc \in {"returned", "compared"} =>
          /\ DOMAIN mp_out = DOMAIN mp_valid_length
          /\ \A n \in DOMAIN mp_out : \A c \in DOMAIN mp_out[n] :
                /\ mp_out[n][c].num * mp_valid_length[n] =
                      ValidSum(mp_data, n, c, mp_valid_length[n])
                         * mp_out[n][c].den
                /\ mp_out[n][c].den > 0
    /\ mp_pc = "compared" =>
          (AgreeOnValid(mp_data, mp_other, mp_valid_length)
              => mp_out_other = mp_out)

\* the layer was called on two inputs that differ at a padded position of a
\* column; another column has two valid steps and a mean that is not whole
C12_Witness ==
    /\ mp_pc = "compared"
    /\ mp_out_other = mp_out
    /\ \E n \in DOMAIN mp_valid_length :
          /\ mp_valid_length[n] < Len(mp_data)
          /\ \E t \in (mp_valid_length[n] + 1)..Len(mp_data) :
                mp_other[t][n] # mp_data[t][n]
    /\ \E n \in DOMAIN mp_valid_length :
          /\ mp_valid_length[n] >= 2
          /\ \E c \in DOMAIN mp_out[n] : mp_out[n][c].den > 1

=============================================================================
